---------------------------- MODULE Spec2Model ----------------------------
(***************************************************************************)
(* A model of the document translator: the batch translation client and   *)
(* its reconciliation engine (backend/translator.py) and the /translate   *)
(* request pipeline (backend/app.py).                                     *)
(*                                                                         *)
(* Text is modelled as a sequence of one-character strings, so that the   *)
(* character-level code (strip, bracket scanning, JSON decoding, the      *)
(* fence pattern) is computed as the code computes it.  Python indexes    *)
(* from 0, the sequences here from 1.                                     *)
(***************************************************************************)
EXTENDS Integers, Sequences, FiniteSets, TLC

VARIABLES
    pc,            \* position of the operation under study
    message,       \* _find_json_array / _extract_translations: the message text
    snippet,       \* _find_json_array: its return value
    translations,  \* _reconcile_translation_count: the provider's items
    original_texts,\* _reconcile_translation_count: the source strings
    adjusted,      \* _reconcile_translation_count: its return value
    texts,         \* translate_texts: the input strings
    api_key,       \* translate_texts: self.config.api_key
    target_lang,   \* translate_texts: self.config.target_lang
    expected_count,\* _extract_translations: the expected count
    extracted,     \* _extract_translations: the list returned, or the error
    response,      \* translate_texts: what requests.post produced
    outcome,       \* translate_texts: the list returned or the exception raised
    registry,      \* app.py: registry._records
    disk,          \* app.py: the paths that hold a file, with the file's kind
    session,       \* app.py: the Flask session of each client
    reqs,          \* app.py: the /translate requests in flight
    upload_status, \* app.py: the status code of the last /upload response
    login_status,  \* app.py: the status code of the last login response
    next_id,       \* app.py: the uuid4 values handed out so far
    document,      \* document_handler.py: the stored file as the adapter parses it
    elements,      \* document_handler.py: the list extract_text returned
    mapping,       \* document_handler.py: the translations given to apply_translations
    font_name,     \* document_handler.py: the font_name given to apply_translations
    saved,         \* document_handler.py: the document saved at output_path
    rewrites       \* document_handler.py: the replacements apply_translations made

vars == <<pc, message, snippet, translations, original_texts, adjusted,
          texts, api_key, target_lang, expected_count, extracted,
          response, outcome,
          registry, disk, session, reqs, upload_status, login_status, next_id,
          document, elements, mapping, font_name, saved, rewrites>>

-----------------------------------------------------------------------------
(* Bounds of the model.                                                    *)

\* longest message text enumerated character by character
MaxMsgLen == 5
\* longest item list handed to the reconciliation engine
MaxItems == 5
\* longest input list of translate_texts
MaxTexts == 10
\* /translate requests in flight at once
MaxReqs == 1
\* uuid4 values handed out (uploads and outputs)
MaxIds == 3
\* files uploaded
MaxUploads == 1

-----------------------------------------------------------------------------
(* Characters and the str methods the code uses.                           *)

\* str.strip / lstrip / rstrip and the pattern class \s
IsSpace(c) == c \in {" ", "\t", "\n", "\r", "\f"}

\* the whitespace json.loads skips
IsJsonSpace(c) == c \in {" ", "\t", "\n", "\r"}

\* str.islower on one character (the ASCII letters)
IsLower(c) ==
    c \in {"a", "b", "c", "d", "e", "f", "g", "h", "i", "j", "k", "l", "m",
           "n", "o", "p", "q", "r", "s", "t", "u", "v", "w", "x", "y", "z"}

\* F applied to the value of e, with e evaluated once (a LET definition is
\* evaluated anew at each of its uses)
Bind(e, F(_)) == CHOOSE y \in {F(x) : x \in {e}} : TRUE

RECURSIVE Flatten(_)
Flatten(ss) == IF ss = <<>> THEN <<>> ELSE Head(ss) \o Flatten(Tail(ss))

RECURSIVE lstrip(_)
lstrip(s) == IF s # <<>> /\ IsSpace(Head(s)) THEN lstrip(Tail(s)) ELSE s

RECURSIVE rstrip(_)
rstrip(s) ==
    IF s # <<>> /\ IsSpace(s[Len(s)])
    THEN Bind(SubSeq(s, 1, Len(s) - 1), LAMBDA t : rstrip(t))
    ELSE s

strip(s) == lstrip(rstrip(s))

\* s[i:i+len(t)] == t
StartsAt(s, i, t) ==
    /\ i >= 1
    /\ i + Len(t) - 1 <= Len(s)
    /\ SubSeq(s, i, i + Len(t) - 1) = t



-----------------------------------------------------------------------------
(* OpenRouterTranslator._find_json_array                                   *)

\* Optional[str]: None, or the substring found
NoSnippet == [found |-> FALSE, text |-> <<>>]
Snippet(t) == [found |-> TRUE, text |-> t]

\* message.find of the opening bracket: its first index, or 0 (Python: -1)
RECURSIVE FindBracket(_, _)
FindBracket(msg, i) ==
    IF i > Len(msg) THEN 0
    ELSE IF msg[i] = "[" THEN i
    ELSE FindBracket(msg, i + 1)

\* ScanArray with no escape flag: every quote opens or closes a string
RECURSIVE ScanArray_noescape(_, _, _, _, _, _)
ScanArray_noescape(msg, start, idx, depth, in_string, escape) ==
    IF idx > Len(msg) THEN NoSnippet
    ELSE
        LET char == msg[idx]
            in1 == IF char = "\"" THEN ~in_string ELSE in_string
        IN  IF in1
            THEN ScanArray_noescape(msg, start, idx + 1, depth, in1, FALSE)
            ELSE
                LET d1 == IF char = "[" THEN depth + 1
                          ELSE IF char = "]" THEN depth - 1
                          ELSE depth
                IN  IF char = "]" /\ d1 = 0
                    THEN Snippet(SubSeq(msg, start, idx))
                    ELSE ScanArray_noescape(msg, start, idx + 1, d1, in1, FALSE)

\* the for loop of _find_json_array, from index idx on
RECURSIVE ScanArray(_, _, _, _, _, _)
ScanArray(msg, start, idx, depth, in_string, escape) ==
    IF idx > Len(msg) THEN NoSnippet
    ELSE
        LET char == msg[idx]
            in1 == IF char = "\"" /\ ~escape THEN ~in_string ELSE in_string
            esc1 == (char = "\\" /\ ~escape)
        IN  IF in1
            THEN ScanArray(msg, start, idx + 1, depth, in1, esc1)
            ELSE
                LET d1 == IF char = "[" THEN depth + 1
                          ELSE IF char = "]" THEN depth - 1
                          ELSE depth
                IN  IF char = "]" /\ d1 = 0
                    THEN Snippet(SubSeq(msg, start, idx))
                    ELSE ScanArray(msg, start, idx + 1, d1, in1, esc1)

_find_json_array(msg) ==
    LET start == FindBracket(msg, 1)
    IN  IF start = 0 THEN NoSnippet
        ELSE ScanArray(msg, start, start, 0, FALSE, FALSE)

-----------------------------------------------------------------------------
(* json.loads, over texts made of the characters                           *)
(* brackets, the double quote, the backslash, the comma, the full stop,    *)
(* the backtick, a few letters and whitespace.                             *)
(* Over these characters a JSON value is a string or an array: no number,  *)
(* literal or object can be spelled.  A decoded value is a record: a str   *)
(* carries its characters in s, a list its items in items.                 *)

JStr(s) == [t |-> "str", s |-> s, items |-> <<>>]
JList(items) == [t |-> "list", s |-> <<>>, items |-> items]

\* a decoding step: JSONDecodeError, or the value and the index after it
JFail == [ok |-> FALSE, v |-> JStr(<<>>), next |-> 0]
JOk(v, next) == [ok |-> TRUE, v |-> v, next |-> next]

RECURSIVE SkipSpace(_, _)
SkipSpace(s, i) ==
    IF i <= Len(s) /\ IsJsonSpace(s[i]) THEN SkipSpace(s, i + 1) ELSE i

\* py_scanstring (strict): from the index after the opening quote
RECURSIVE ScanString(_, _, _)
ScanString(s, i, acc) ==
    IF i > Len(s) THEN JFail
    ELSE IF s[i] = "\"" THEN JOk(JStr(acc), i + 1)
    ELSE IF s[i] \in {"\t", "\n", "\r", "\f"} THEN JFail
    ELSE IF s[i] = "\\"
         THEN IF i + 1 > Len(s) THEN JFail
              ELSE IF s[i + 1] \in {"\"", "\\"}
                   THEN ScanString(s, i + 2, Append(acc, s[i + 1]))
              ELSE IF s[i + 1] = "n" THEN ScanString(s, i + 2, Append(acc, "\n"))
              ELSE JFail
    ELSE ScanString(s, i + 1, Append(acc, s[i]))

RECURSIVE ScanOnce(_, _)
RECURSIVE ScanItems(_, _, _)

\* JSONArray: the loop over the values of a non-empty array, at a value's index
ScanItems(s, i, acc) ==
    Bind(ScanOnce(s, i), LAMBDA r :
        IF ~r.ok THEN JFail
        ELSE Bind(SkipSpace(s, r.next), LAMBDA j :
            IF j > Len(s) THEN JFail
            ELSE IF s[j] = "]" THEN JOk(JList(Append(acc, r.v)), j + 1)
            ELSE IF s[j] = "," THEN ScanItems(s, SkipSpace(s, j + 1), Append(acc, r.v))
            ELSE JFail))

\* scan_once: one value starting exactly at index i
ScanOnce(s, i) ==
    IF i > Len(s) THEN JFail
    ELSE IF s[i] = "\"" THEN ScanString(s, i + 1, <<>>)
    ELSE IF s[i] = "["
         THEN LET j == SkipSpace(s, i + 1)
              IN  IF j <= Len(s) /\ s[j] = "]" THEN JOk(JList(<<>>), j + 1)
                  ELSE ScanItems(s, j, <<>>)
    ELSE JFail

\* json.loads: one value, whitespace around it, nothing after it
json_loads(s) ==
    Bind(ScanOnce(s, SkipSpace(s, 1)), LAMBDA r :
        IF r.ok /\ SkipSpace(s, r.next) = Len(s) + 1 THEN r ELSE JFail)

-----------------------------------------------------------------------------
(* The fenced-block pattern of _extract_translations: three backticks, an  *)
(* optional json tag, whitespace, a lazily matched bracketed group,        *)
(* whitespace, three backticks.                                            *)

\* the backtick character (the atom stands for U+0060, which a string literal
\* of this notation cannot hold)
Backtick == "BACKTICK"
Fence == <<Backtick, Backtick, Backtick>>
JsonTag == <<"j", "s", "o", "n">>

RECURSIVE SkipPySpace(_, _)
SkipPySpace(s, i) ==
    IF i <= Len(s) /\ IsSpace(s[i]) THEN SkipPySpace(s, i + 1) ELSE i

\* where group 1 must start when the match starts at index i, or 0
FenceOpen(msg, i) ==
    IF ~StartsAt(msg, i, Fence) THEN 0
    ELSE
        LET a == IF StartsAt(msg, i + 3, JsonTag) THEN i + 7 ELSE i + 3
            b == SkipPySpace(msg, a)
        IN  IF b <= Len(msg) /\ msg[b] = "[" THEN b ELSE 0

\* the lazy group: the nearest closing bracket at or after e that whitespace
\* and a fence follow, or 0
RECURSIVE FenceClose(_, _)
FenceClose(msg, e) ==
    IF e > Len(msg) THEN 0
    ELSE IF msg[e] = "]" /\ StartsAt(msg, SkipPySpace(msg, e + 1), Fence) THEN e
    ELSE FenceClose(msg, e + 1)

\* re.search: the leftmost index at which the pattern matches; group(1)
RECURSIVE FencedFrom(_, _)
FencedFrom(msg, i) ==
    IF i > Len(msg) THEN NoSnippet
    ELSE
        LET b == FenceOpen(msg, i)
            e == IF b = 0 THEN 0 ELSE FenceClose(msg, b + 1)
        IN  IF e # 0 THEN Snippet(SubSeq(msg, b, e))
            ELSE FencedFrom(msg, i + 1)

FencedSearch(msg) == FencedFrom(msg, 1)

-----------------------------------------------------------------------------
(* OpenRouterTranslator._extract_translations                              *)

\* one step of the cascade (lines 108-110, 118-120, 127-129): the list
\* returned, or nothing when the text is no JSON, no list, or a list of
\* another length
TryParse(text, expected) ==
    Bind(json_loads(text), LAMBDA r :
        IF r.ok /\ r.v.t = "list" /\ (expected = Len(r.v.items) \/ expected = 0)
        THEN [ok |-> TRUE, parsed |-> r.v.items]
        ELSE [ok |-> FALSE, parsed |-> <<>>])

\* the list returned, or TranslationError("Could not parse ...")
_extract_translations(msg, expected) ==
    Bind(TryParse(msg, expected), LAMBDA direct :
        IF direct.ok THEN direct
        ELSE Bind(FencedSearch(msg), LAMBDA fenced :
            Bind(IF fenced.found THEN TryParse(fenced.text, expected)
                 ELSE [ok |-> FALSE, parsed |-> <<>>], LAMBDA infence :
                IF infence.ok THEN infence
                ELSE Bind(_find_json_array(msg), LAMBDA array_snippet :
                    IF array_snippet.found
                    THEN TryParse(array_snippet.text, expected)
                    ELSE [ok |-> FALSE, parsed |-> <<>>]))))

-----------------------------------------------------------------------------
(* The reconciliation engine: _find_merge_index, _concat_segments,         *)
(* _merge_extra_items, _pad_missing_items, _reconcile_translation_count.   *)
(* Items are strings (sequences of characters).                            *)

\* the characters of the literal ",.;:!?)]}"
ClosingPunctuation == {",", ".", ";", ":", "!", "?", ")", "]", "}"}

\* the full-width forms U+3002, U+FF01, U+FF1F, as atoms
IdeographicFullStop == "U+3002"
FullwidthExclamation == "U+FF01"
FullwidthQuestion == "U+FF1F"

\* the tuple handed to str.endswith
TerminalPunctuation ==
    {".", "!", "?", IdeographicFullStop, FullwidthExclamation, FullwidthQuestion}

EndsWithTerminal(s) == s # <<>> /\ s[Len(s)] \in TerminalPunctuation

\* the test made at index idx (0-based, 1 <= idx < len(items)) of the loop
MergeSignal(items, idx) ==
    LET segment == lstrip(items[idx + 1])
        previous == items[idx]
    IN  \/ segment = <<>>
        \/ segment[1] \in ClosingPunctuation
        \/ previous # <<>> /\ ~EndsWithTerminal(rstrip(previous))
        \/ IsLower(segment[1])

\* MergeScan that goes on to the last index showing a signal
RECURSIVE MergeScan_last(_, _)
MergeScan_last(items, idx) ==
    IF idx >= Len(items) THEN IF Len(items) - 2 > 0 THEN Len(items) - 2 ELSE 0
    ELSE IF MergeSignal(items, idx)
            /\ \A j \in (idx + 1)..(Len(items) - 1) : ~MergeSignal(items, j)
    THEN idx - 1
    ELSE MergeScan_last(items, idx + 1)

RECURSIVE MergeScan(_, _)
MergeScan(items, idx) ==
    IF idx >= Len(items) THEN IF Len(items) - 2 > 0 THEN Len(items) - 2 ELSE 0
    ELSE IF MergeSignal(items, idx) THEN idx - 1
    ELSE MergeScan(items, idx + 1)

\* the 0-based index of the left item of the pair to merge
_find_merge_index(items) == MergeScan(items, 1)

\* _concat_segments that joins with a space before closing punctuation too
_concat_segments_spaced(left, right) ==
    LET l == rstrip(left)
        r == lstrip(right)
    IN  IF l = <<>> THEN r
        ELSE IF r = <<>> THEN l
        ELSE l \o <<" ">> \o r

_concat_segments(left, right) ==
    LET l == rstrip(left)
        r == lstrip(right)
    IN  IF l = <<>> THEN r
        ELSE IF r = <<>> THEN l
        ELSE IF r[1] \in ClosingPunctuation THEN l \o r
        ELSE l \o <<" ">> \o r

\* MergeAt with the two fragments concatenated in the other order
MergeAt_swapped(merged, idx) ==
    SubSeq(merged, 1, idx)
        \o <<_concat_segments(merged[idx + 2], merged[idx + 1])>>
        \o SubSeq(merged, idx + 3, Len(merged))

\* one iteration of the while loop: merged[idx] takes the concatenation,
\* merged.pop(idx + 1) removes the right item
MergeAt(merged, idx) ==
    SubSeq(merged, 1, idx)
        \o <<_concat_segments(merged[idx + 1], merged[idx + 2])>>
        \o SubSeq(merged, idx + 3, Len(merged))

\* _merge_extra_items with an if in the place of the while
_merge_extra_items_once(items, expected) ==
    IF Len(items) > expected /\ Len(items) > 1
    THEN MergeAt(items, _find_merge_index(items))
    ELSE items

RECURSIVE _merge_extra_items(_, _)
_merge_extra_items(items, expected) ==
    IF Len(items) > expected /\ Len(items) > 1
    THEN Bind(MergeAt(items, _find_merge_index(items)), LAMBDA merged :
             _merge_extra_items(merged, expected))
    ELSE items

\* _pad_missing_items taking the source strings from the front
_pad_missing_items_front(items, originals) ==
    items \o SubSeq(originals, 1, Len(originals) - Len(items))

_pad_missing_items(items, originals) ==
    items \o SubSeq(originals, Len(items) + 1, Len(originals))

\* max(3, expected // 5 + 1)
Tolerance(expected) ==
    IF expected \div 5 + 1 > 3 THEN expected \div 5 + 1 ELSE 3

Abs(n) == IF n < 0 THEN -n ELSE n

_reconcile_translation_count(trans, originals) ==
    LET expected == Len(originals)
        current == Len(trans)
        merged == IF current > expected
                  THEN _merge_extra_items(trans, expected) ELSE trans
    IN  IF expected = 0 \/ current = expected THEN trans
        ELSE IF Abs(current - expected) > Tolerance(expected) THEN trans
        ELSE IF Len(merged) < expected THEN _pad_missing_items(merged, originals)
        ELSE merged


-----------------------------------------------------------------------------
(* OpenRouterTranslator.translate_texts                                    *)

\* repr of a str made of the model's characters: single quotes, the
\* backslash doubled, the newline as backslash n
RECURSIVE ReprChars(_)
ReprChars(s) ==
    IF s = <<>> THEN <<>>
    ELSE (IF Head(s) = "\\" THEN <<"\\", "\\">>
          ELSE IF Head(s) = "\n" THEN <<"\\", "n">>
          ELSE <<Head(s)>>) \o ReprChars(Tail(s))

RECURSIVE PyRepr(_)
RECURSIVE ReprItems(_)

\* repr of the items of a list, joined by a comma and a space
ReprItems(vs) ==
    IF vs = <<>> THEN <<>>
    ELSE IF Len(vs) = 1 THEN PyRepr(vs[1])
    ELSE PyRepr(vs[1]) \o <<",", " ">> \o ReprItems(Tail(vs))

PyRepr(v) ==
    IF v.t = "str" THEN <<"'">> \o ReprChars(v.s) \o <<"'">>
    ELSE <<"[">> \o ReprItems(v.items) \o <<"]">>

\* str(item)
PyStr(v) == IF v.t = "str" THEN v.s ELSE PyRepr(v)

\* what a call of translate_texts ends with
Returned(v) == [kind |-> "return", value |-> v, exc |-> "none", msg |-> "none", status |-> 0]
Raised(exc, msg, status) ==
    [kind |-> "raise", value |-> <<>>, exc |-> exc, msg |-> msg, status |-> status]

\* _mock_translate: f"[{target}] {text}", target = target_lang or "translated"
_mock_translate(lang, text) ==
    LET target == IF lang # <<>> THEN lang
                  ELSE <<"t", "r", "a", "n", "s", "l", "a", "t", "e", "d">>
    IN  <<"[">> \o target \o <<"]", " ">> \o text

\* what requests.post produced: a RequestException, or a response with a
\* status code and a body.  The body is not JSON ("not_json"), JSON that is
\* no object ("not_object"), an object that lacks a key on the path
\* choices[0].message.content ("no_choices", "empty_choices", "no_message",
\* "no_content"), or an object whose content is null ("null_content") or a
\* string ("content", the string in content).
NoResponse == [kind |-> "none", status |-> 0, body |-> "none", content |-> <<>>]
TransportFailure == [kind |-> "exception", status |-> 0, body |-> "none", content |-> <<>>]
HttpResponse(status, body, content) ==
    [kind |-> "http", status |-> status, body |-> body, content |-> content]

\* FromContent with no count passed to the cascade and no count check after it
FromContent_unchecked(txts, message_content) ==
    Bind(_extract_translations(message_content, 0), LAMBDA ex :
        IF ~ex.ok
        THEN Raised("TranslationError",
                    "Could not parse translation response from OpenRouter", 0)
        ELSE Returned([i \in 1..Len(ex.parsed) |-> PyStr(ex.parsed[i])]))

\* lines 70-76: from the stripped message content to the result.  Every step
\* of the cascade returns a list of the expected length only, so the call of
\* _reconcile_translation_count is kept as written although no message
\* reaches it.  Its merge uses str methods: on an item that is no str it
\* raises AttributeError (modelled for every merge of such a list).
FromContent(txts, message_content) ==
    Bind(_extract_translations(message_content, Len(txts)), LAMBDA ex :
        LET n == Len(ex.parsed)
            allstr == \A i \in 1..n : ex.parsed[i].t = "str"
            merging == n > Len(txts) /\ n - Len(txts) <= Tolerance(Len(txts))
            strs == [i \in 1..n |-> ex.parsed[i].s]
            rec == IF allstr
                   THEN Bind(_reconcile_translation_count(strs, txts), LAMBDA r :
                            [i \in 1..Len(r) |-> JStr(r[i])])
                   ELSE _reconcile_translation_count(
                            ex.parsed, [i \in 1..Len(txts) |-> JStr(txts[i])])
        IN  IF ~ex.ok
            THEN Raised("TranslationError",
                        "Could not parse translation response from OpenRouter", 0)
            ELSE IF n = Len(txts)
            THEN Returned([i \in 1..n |-> PyStr(ex.parsed[i])])
            ELSE IF merging /\ ~allstr
            THEN Raised("AttributeError", "none", 0)
            ELSE Bind(rec, LAMBDA adj :
                IF Len(adj) # Len(txts)
                THEN Raised("TranslationError",
                            "Translation count mismatch between request and response", 0)
                ELSE Returned([i \in 1..Len(adj) |-> PyStr(adj[i])])))

\* FromResponse with the status test written as "is not 200"
FromResponse_only200(txts, resp) ==
    IF resp.kind = "exception"
    THEN Raised("TranslationError", "Failed to contact OpenRouter API", 0)
    ELSE IF resp.status # 200
    THEN Raised("TranslationError", "OpenRouter API returned status: body", resp.status)
    ELSE IF resp.body # "content"
    THEN Raised("TranslationError", "Could not parse translation response from OpenRouter", 0)
    ELSE FromContent(txts, strip(resp.content))

\* lines 58-68: from the response to the result
FromResponse(txts, resp) ==
    IF resp.kind = "exception"
    THEN Raised("TranslationError", "Failed to contact OpenRouter API", 0)
    ELSE IF resp.status >= 400
    THEN Raised("TranslationError", "OpenRouter API returned status: body", resp.status)
    ELSE IF resp.body = "not_json"
    THEN Raised("JSONDecodeError", "none", 0)
    ELSE IF resp.body = "not_object"
    THEN Raised("TypeError", "none", 0)
    ELSE IF resp.body \in {"no_choices", "empty_choices", "no_message", "no_content"}
    THEN Raised("TranslationError", "Could not parse translation response from OpenRouter", 0)
    ELSE IF resp.body = "null_content"
    THEN Raised("AttributeError", "none", 0)
    ELSE FromContent(txts, strip(resp.content))

\* whether the call reaches requests.post (lines 39-54)
CallsProvider(txts, key) == txts # <<>> /\ key # <<>>

\* the whole method; resp is read only when the provider is called
translate_texts(txts, key, lang, resp) ==
    IF txts = <<>> THEN Returned(<<>>)
    ELSE IF key = <<>>
    THEN Returned([i \in 1..Len(txts) |-> _mock_translate(lang, txts[i])])
    ELSE FromResponse(txts, resp)


-----------------------------------------------------------------------------
(* Inputs.                                                                 *)

\* all sequences over S of length at most n
SeqsUpTo(S, n) == UNION {[1..k -> S] : k \in 0..n}

\* the characters the bracket scanner tells apart, and one other
ScanChars == {"[", "]", "\"", "\\", "a"}

\* the response text of the bracket-scanning example
ExampleMessage ==
    <<"N", "o", "t", "e", ":", " ", "s", "e", "e", " ",
      "[", " ", "\"", "a", "]", "b", "\"", ",", " ", "\"", "c", "\"", " ", "]",
      " ", "e", "n", "d">>
ExampleArrayText ==
    <<"[", " ", "\"", "a", "]", "b", "\"", ",", " ", "\"", "c", "\"", " ", "]">>
ExampleItems == << <<"a", "]", "b">>, <<"c">> >>

\* longer texts: the example, and arrays whose strings hold an escaped quote
LongerMessages ==
    { ExampleMessage,
      <<"[", "\"", "\\", "\"", "\"", "]">>,
      <<"[", "\"", "\\", "\"", "]", "\"", "]">>,
      <<"[", "\"", "\\", "\\", "\"", "]", "\"", "]">>,
      <<"a", "[", "[", "\"", "]", "\"", "]", "a", "]", "]">> }

\* strings a provider may answer with, as items of its array
ItemTexts == { <<"a">>, <<"B", ".">> }
ProviderItemLists ==
    SeqsUpTo(ItemTexts, MaxItems)
        \cup {ExampleItems, << <<"a", "\"", "]">>, <<"\\">> >>}

\* json.dumps of a str made of the model's characters
RECURSIVE EscapeChars(_)
EscapeChars(s) ==
    IF s = <<>> THEN <<>>
    ELSE (IF Head(s) \in {"\"", "\\"} THEN <<"\\", Head(s)>> ELSE <<Head(s)>>)
         \o EscapeChars(Tail(s))

Quoted(s) == <<"\"">> \o EscapeChars(s) \o <<"\"">>

RECURSIVE Joined(_, _)
Joined(items, sep) ==
    IF items = <<>> THEN <<>>
    ELSE IF Len(items) = 1 THEN Quoted(items[1])
    ELSE Quoted(items[1]) \o sep \o Joined(Tail(items), sep)

\* a JSON array of strings, written compactly or with spaces
ArrayStyles == {"compact", "spaced"}
Render(items, style) ==
    IF style = "compact" THEN <<"[">> \o Joined(items, <<",">>) \o <<"]">>
    ELSE <<"[", " ">> \o Joined(items, <<",", " ">>) \o <<" ", "]">>

\* what a model puts around the array
Wrappings == {"bare", "padded", "prose", "fenced", "fenced_plain"}
Wrap(text, w) ==
    IF w = "bare" THEN text
    ELSE IF w = "padded" THEN <<" ">> \o text \o <<"\n">>
    ELSE IF w = "prose"
    THEN <<"N", "o", "t", "e", ":", " ", "s", "e", "e", " ">> \o text
             \o <<" ", "e", "n", "d">>
    ELSE IF w = "fenced"
    THEN Fence \o JsonTag \o <<"\n">> \o text \o <<"\n">> \o Fence
    ELSE Fence \o text \o Fence

\* contents that hold no array of strings, or two arrays
OtherContents ==
    { <<>>, <<"o", "k">>, <<"\"", "a", "\"">>, <<"[", "[", "]", "]">>,
      <<"[", "\"", "a", "\"", ",", "[", "\"", "b", "\"", "]", "]">>,
      <<"[", "\"", "a", "\"", "]", " ", "[", "\"", "a", "\"", ",", "\"", "a", "\"", "]">>,
      <<"[", "\"", "a", "\"", ",", "]">> }

Contents ==
    {Wrap(Render(items, style), w) :
        items \in ProviderItemLists, style \in ArrayStyles, w \in Wrappings}
    \cup OtherContents

BodyShapes ==
    {"not_json", "not_object", "no_choices", "empty_choices", "no_message",
     "no_content", "null_content", "content"}

StatusCodes == {200, 201, 304, 400, 500}

Responses ==
    {TransportFailure}
    \cup {HttpResponse(st, b, <<>>) : st \in StatusCodes, b \in BodyShapes \ {"content"}}
    \cup {HttpResponse(200, "content", c) : c \in Contents}
    \cup {HttpResponse(st, "content", Render(<< <<"a">> >>, "compact")) : st \in StatusCodes}

\* the source strings of a request: n strings, in one of two patterns
SourceText(i, v) == IF (i + v) % 2 = 0 THEN <<"A", ".">> ELSE <<"b">>
SourceTexts(n, v) == [i \in 1..n |-> SourceText(i, v)]

-----------------------------------------------------------------------------
(* The variables an operation does not use keep these values.              *)

NoOutcome == [kind |-> "none", value |-> <<>>, exc |-> "none", msg |-> "none", status |-> 0]
NoExtract == [ok |-> FALSE, parsed |-> <<>>]

ScanIdle ==
    /\ message = <<>> /\ snippet = NoSnippet
    /\ expected_count = 0 /\ extracted = NoExtract
ReconcileIdle ==
    /\ translations = <<>> /\ original_texts = <<>> /\ adjusted = <<>>
TranslateIdle ==
    /\ texts = <<>> /\ api_key = <<>> /\ target_lang = <<>>
    /\ response = NoResponse /\ outcome = NoOutcome
AppIdle ==
    /\ registry = {} /\ disk = {} /\ session = <<>> /\ reqs = <<>>
    /\ upload_status = 0 /\ login_status = 0 /\ next_id = 0
DocIdle ==
    /\ document = <<>> /\ elements = <<>> /\ mapping = <<>>
    /\ font_name = "" /\ saved = <<>> /\ rewrites = <<>>

scanVars == <<message, snippet, expected_count, extracted>>
reconcileVars == <<translations, original_texts, adjusted>>
translateVars == <<texts, api_key, target_lang, response, outcome>>
appVars ==
    <<registry, disk, session, reqs, upload_status, login_status, next_id>>
docVars == <<document, elements, mapping, font_name, saved, rewrites>>

-----------------------------------------------------------------------------
(* SpecExtract: _find_json_array and _extract_translations on a message.   *)

InitExtract ==
    /\ pc = "scan"
    /\ message \in SeqsUpTo(ScanChars, MaxMsgLen) \cup LongerMessages
    /\ expected_count \in 0..2
    /\ snippet = NoSnippet
    /\ extracted = NoExtract
    /\ ReconcileIdle /\ TranslateIdle /\ AppIdle /\ DocIdle

FindJsonArray ==
    /\ pc = "scan"
    /\ snippet' = _find_json_array(message)
    /\ pc' = "extract"
    /\ UNCHANGED <<message, expected_count, extracted>>
    /\ UNCHANGED <<reconcileVars, translateVars, appVars, docVars>>

ExtractTranslations ==
    /\ pc = "extract"
    /\ extracted' = _extract_translations(message, expected_count)
    /\ pc' = "done"
    /\ UNCHANGED <<message, expected_count, snippet>>
    /\ UNCHANGED <<reconcileVars, translateVars, appVars, docVars>>

NextExtract == FindJsonArray \/ ExtractTranslations

SpecExtract == InitExtract /\ [][NextExtract]_vars

-----------------------------------------------------------------------------
(* SpecReconcile: _reconcile_translation_count on a list of items and the  *)
(* source strings.                                                         *)

\* items with and without each continuation signal
ReconcileItems ==
    { <<"A", ".">>, <<" ", "A", " ">>, <<"a", ".">>, <<",", "a">>, <<" ">> }

\* the i-th source string, told apart from every item and every other source
Source(i) == <<"s", i>>
Originals(n) == [i \in 1..n |-> Source(i)]

\* longest list of source strings
MaxOriginals == 7

InitReconcile ==
    /\ pc = "reconcile"
    /\ translations \in SeqsUpTo(ReconcileItems, MaxItems)
    /\ \E n \in 0..MaxOriginals : original_texts = Originals(n)
    /\ adjusted = <<>>
    /\ ScanIdle /\ TranslateIdle /\ AppIdle /\ DocIdle

Reconcile ==
    /\ pc = "reconcile"
    /\ adjusted' = _reconcile_translation_count(translations, original_texts)
    /\ pc' = "done"
    /\ UNCHANGED <<translations, original_texts>>
    /\ UNCHANGED <<scanVars, translateVars, appVars, docVars>>

NextReconcile == Reconcile

SpecReconcile == InitReconcile /\ [][NextReconcile]_vars

-----------------------------------------------------------------------------
(* SpecTranslate: one call of translate_texts.                             *)

InitTranslate ==
    /\ pc = "call"
    /\ \E n \in 0..MaxTexts, v \in 0..1 : texts = SourceTexts(n, v)
    /\ api_key \in {<<>>, <<"k">>}
    /\ target_lang \in {<<>>, <<"e", "s">>}
    /\ response = NoResponse
    /\ outcome = NoOutcome
    /\ ScanIdle /\ ReconcileIdle /\ AppIdle /\ DocIdle

\* lines 39-44: the empty input and the mock mode return without a request
ReturnWithoutRequest ==
    /\ pc = "call"
    /\ ~CallsProvider(texts, api_key)
    /\ outcome' = translate_texts(texts, api_key, target_lang, response)
    /\ pc' = "done"
    /\ UNCHANGED <<texts, api_key, target_lang, response>>
    /\ UNCHANGED <<scanVars, reconcileVars, appVars, docVars>>

\* line 54: requests.post answers, or fails
Post ==
    /\ pc = "call"
    /\ CallsProvider(texts, api_key)
    /\ response' \in Responses
    /\ pc' = "posted"
    /\ UNCHANGED <<texts, api_key, target_lang, outcome>>
    /\ UNCHANGED <<scanVars, reconcileVars, appVars, docVars>>

\* lines 55-76
Receive ==
    /\ pc = "posted"
    /\ outcome' = translate_texts(texts, api_key, target_lang, response)
    /\ pc' = "done"
    /\ UNCHANGED <<texts, api_key, target_lang, response>>
    /\ UNCHANGED <<scanVars, reconcileVars, appVars, docVars>>

NextTranslate == ReturnWithoutRequest \/ Post \/ Receive

SpecTranslate == InitTranslate /\ [][NextTranslate]_vars


-----------------------------------------------------------------------------
(* Claims about translate_texts, under SpecTranslate.                      *)

\* the call went to the provider and a response with body content came back
LiveContent ==
    /\ pc = "done"
    /\ texts # <<>>
    /\ api_key # <<>>
    /\ response.kind = "http"
    /\ response.body = "content"

\* C1: when the provider answers with a success status and a content that is
\* a well-formed JSON array of exactly N strings, translate_texts returns
\* those N strings, unchanged and in the same order.
C1_WellFormedArrayReturnedUnchanged ==
    \A items \in ProviderItemLists, style \in ArrayStyles :
        ( /\ LiveContent
          /\ Len(items) = Len(texts)
          /\ response.status \in 200..299
          /\ response.content = Render(items, style) )
        => outcome = Returned(items)

\* C1 happens: an array of two strings, one of them holding a bracket, came
\* back for two inputs and was returned
C1_Witness ==
    /\ LiveContent
    /\ Len(texts) = 2
    /\ response.content = Render(ExampleItems, "spaced")
    /\ outcome = Returned(ExampleItems)

\* C2: a call that returns normally returns as many items as it was given;
\* every other call raises and hands no list to the caller.
C2_ReturnedLengthEqualsInputLength ==
    pc = "done" =>
        /\ outcome.kind \in {"return", "raise"}
        /\ outcome.kind = "return" => Len(outcome.value) = Len(texts)
        /\ outcome.kind = "raise" => outcome.value = <<>>

\* C2 happens: three inputs, an array of three items inside prose, returned
C2_Witness ==
    /\ LiveContent
    /\ Len(texts) = 3
    /\ \E items \in ProviderItemLists :
           response.content = Wrap(Render(items, "compact"), "prose")
    /\ outcome.kind = "return"
    /\ Len(outcome.value) = 3

\* the provider content holds (bare, padded, in prose or fenced) an array of
\* M strings for N inputs
HoldsArrayOf(items) ==
    \E style \in ArrayStyles, w \in Wrappings :
        response.content = Wrap(Render(items, style), w)

\* C3: for N >= 1 inputs and a content holding an array of M strings, M # N
\* and |M - N| <= max(3, N div 5 + 1), translate_texts reconciles the count
\* and returns a list of exactly N strings instead of failing.
C3_RecoversFromMergedOrSplitEntries ==
    \A items \in ProviderItemLists :
        ( /\ LiveContent
          /\ response.status = 200
          /\ Len(items) # Len(texts)
          /\ Abs(Len(items) - Len(texts)) <= Tolerance(Len(texts))
          /\ HoldsArrayOf(items) )
        => (outcome.kind = "return" /\ Len(outcome.value) = Len(texts))

\* C4: for N >= 1 inputs and a content holding an array of M items with
\* |M - N| > max(3, N div 5 + 1), translate_texts fails with the
\* count-mismatch translation error and with no other error.
C4_ToleranceExceededIsCountMismatch ==
    \A items \in ProviderItemLists :
        ( /\ LiveContent
          /\ response.status = 200
          /\ Abs(Len(items) - Len(texts)) > Tolerance(Len(texts))
          /\ HoldsArrayOf(items) )
        => outcome = Raised("TranslationError",
                            "Translation count mismatch between request and response", 0)


-----------------------------------------------------------------------------
(* Claims about _reconcile_translation_count, under SpecReconcile.         *)

\* a string without its whitespace
RECURSIVE Letters(_)
Letters(s) ==
    IF s = <<>> THEN <<>>
    ELSE (IF IsSpace(Head(s)) THEN <<>> ELSE <<Head(s)>>) \o Letters(Tail(s))

\* the items lo..hi of a list, joined
RunLetters(items, lo, hi) == Flatten([i \in 1..(hi - lo + 1) |-> Letters(items[lo + i - 1])])

\* with cuts C inside 1..M-1, the end of the j-th run of 1..M (0 for j = 0)
RunEnd(C, M, j) ==
    IF j = 0 THEN 0
    ELSE CHOOSE c \in C \cup {M} : Cardinality({x \in C \cup {M} : x <= c}) = j

\* out[1..k] is trans cut into k runs of adjacent items, in order, each item
\* in exactly one run: a run of one item is that item unchanged, a longer run
\* is its items concatenated (compared without whitespace)
IsRunsOf(out, k, trans) ==
    LET M == Len(trans)
    IN  IF M = 0 THEN k = 0
        ELSE \E C \in SUBSET (1..(M - 1)) :
                /\ Cardinality(C) = k - 1
                /\ \A j \in 1..k :
                     LET lo == RunEnd(C, M, j - 1) + 1
                         hi == RunEnd(C, M, j)
                     IN  IF lo = hi THEN out[j] = trans[lo]
                         ELSE Letters(out[j]) = RunLetters(trans, lo, hi)

\* how many items of the output come from the provider
ProviderCount ==
    IF Len(translations) < Len(adjusted) THEN Len(translations) ELSE Len(adjusted)

\* C5: reconciliation never reorders.  The output items that come from the
\* provider are single input items or concatenations of runs of adjacent
\* input items, the runs in input order and covering every input item once;
\* a padded source string sits after all provider items, at its own index.
C5_ReconciliationPreservesOrder ==
    pc = "done" =>
        /\ IsRunsOf(adjusted, ProviderCount, translations)
        /\ \A i \in (ProviderCount + 1)..Len(adjusted) :
               /\ i <= Len(original_texts)
               /\ adjusted[i] = original_texts[i]

\* C5 happens: four items were merged into two
C5_Witness ==
    /\ pc = "done"
    /\ Len(translations) = 4
    /\ Len(original_texts) = 2
    /\ Len(adjusted) = 2
    /\ adjusted # SubSeq(translations, 1, 2)

\* C6: for M < N items with N - M within the tolerance, the result has N
\* items: the M given items unchanged, then the source strings of the
\* missing indexes, each at its own index.
C6_PadsWithSourceStrings ==
    ( /\ pc = "done"
      /\ Len(translations) < Len(original_texts)
      /\ Len(original_texts) - Len(translations) <= Tolerance(Len(original_texts)) )
    => /\ Len(adjusted) = Len(original_texts)
       /\ \A i \in 1..Len(translations) : adjusted[i] = translations[i]
       /\ \A i \in (Len(translations) + 1)..Len(original_texts) :
              adjusted[i] = original_texts[i]

\* C6 happens: two items for three source strings, the third one appended
C6_Witness ==
    /\ pc = "done"
    /\ Len(translations) = 2
    /\ Len(original_texts) = 3
    /\ adjusted = translations \o <<Source(3)>>


-----------------------------------------------------------------------------
(* Claims about _find_json_array, under SpecExtract.                       *)

\* the number of backslashes in a row right before index i, from start on
RECURSIVE BackslashRun(_, _, _)
BackslashRun(msg, start, i) ==
    IF i - 1 >= start /\ msg[i - 1] = "\\"
    THEN 1 + BackslashRun(msg, start, i - 1)
    ELSE 0

\* whether a string is open just before index i, reading from start.  A quote
\* preceded by an odd number of backslashes is escaped.  In the reading
\* "json" an escape counts inside a string only: a quote outside a string
\* always opens one.  In the reading "scan" an escaped quote neither closes
\* nor opens a string.
RECURSIVE OpenBefore(_, _, _, _)
OpenBefore(reading, msg, start, i) ==
    IF i <= start THEN FALSE
    ELSE Bind(OpenBefore(reading, msg, start, i - 1), LAMBDA open :
            IF /\ msg[i - 1] = "\""
               /\ \/ BackslashRun(msg, start, i - 1) % 2 = 0
                  \/ (reading = "json" /\ ~open)
            THEN ~open ELSE open)

\* the brackets that count: those outside strings
CountedAt(reading, msg, start, k, bracket) ==
    msg[k] = bracket /\ ~OpenBefore(reading, msg, start, k)

DepthAfter(reading, msg, start, i) ==
    Cardinality({k \in start..i : CountedAt(reading, msg, start, k, "[")})
        - Cardinality({k \in start..i : CountedAt(reading, msg, start, k, "]")})

\* the closing brackets that match the first opening bracket
Closers(reading, msg, start) ==
    {i \in start..Len(msg) :
        /\ CountedAt(reading, msg, start, i, "]")
        /\ DepthAfter(reading, msg, start, i) = 0}

\* from the first opening bracket to the first closing bracket that matches it
MatchedArray(reading, msg) ==
    LET start == FindBracket(msg, 1)
    IN  IF start = 0 \/ Closers(reading, msg, start) = {} THEN NoSnippet
        ELSE LET idx == CHOOSE i \in Closers(reading, msg, start) :
                            \A j \in Closers(reading, msg, start) : i <= j
             IN  Snippet(SubSeq(msg, start, idx))

\* the example: the array of the example text is found, and with expected
\* count 2 the extracted list is its two strings
ExampleExtracted ==
    /\ (pc # "scan" /\ message = ExampleMessage) => snippet = Snippet(ExampleArrayText)
    /\ (pc = "done" /\ message = ExampleMessage /\ expected_count = 2) =>
           extracted = [ok |-> TRUE,
                        parsed |-> [i \in 1..2 |-> JStr(ExampleItems[i])]]

\* C7 as stated: _find_json_array returns the text from the first opening
\* bracket to the closing bracket that matches it, brackets counted outside
\* double-quoted strings only, a backslash-escaped quote inside a string not
\* closing it; for the example text and count 2 the array extracted is
\* ["a]b", "c"].
C7_BracketScanning_AsStated ==
    /\ pc # "scan" => snippet = MatchedArray("json", message)
    /\ ExampleExtracted

\* C7, amended: as stated, with the escape honoured outside strings too: a
\* quote that follows an odd run of backslashes neither closes nor opens a
\* string.
C7_BracketScanning ==
    /\ pc # "scan" => snippet = MatchedArray("scan", message)
    /\ ExampleExtracted

\* C7 happens: the example text was scanned and its array extracted
C7_Witness ==
    /\ pc = "done"
    /\ message = ExampleMessage
    /\ expected_count = 2
    /\ snippet = Snippet(ExampleArrayText)
    /\ extracted.ok


-----------------------------------------------------------------------------
(* SpecApp: the routes of app.py.  A /translate request runs in steps, so   *)
(* that requests interleave where the server's threads do: between the      *)
(* lookup, the extraction, the translation, the writing of the output and   *)
(* its registration.                                                        *)

Reqs == 1..MaxReqs

\* settings.allowed_extensions: the default three and one configured extra
AllowedExtensions == {"pptx", "docx", "xlsx", "pdf"}

\* the suffixes get_document_handler has a handler for
HandledSuffixes == {"pptx", "docx", "xlsx"}

\* an uploaded file: its suffix, whether the adapter can parse it, and the
\* number of text elements extract_text finds in it
Doc(suffix, corrupt, n) == [suffix |-> suffix, corrupt |-> corrupt, n |-> n]
UploadedDocs ==
    { Doc("pptx", FALSE, 0), Doc("docx", FALSE, 2), Doc("xlsx", TRUE, 0),
      Doc("pdf", FALSE, 1), Doc("txt", FALSE, 1) }

\* uuid4 that hands out a value it handed out before
uuid4_repeated(handed) == IF handed = 0 THEN 1 ELSE handed

\* uuid4().hex (lines 141, 210): a value not handed out before; the values
\* are numbered in the order they are drawn
uuid4(handed) == handed + 1

\* a file on disk, and a FileRecord of the registry
File(folder, id, doc) == [folder |-> folder, id |-> id, doc |-> doc]
FileRecord(file_id, kind, folder, suffix) ==
    [file_id |-> file_id, kind |-> kind, folder |-> folder, suffix |-> suffix]

\* registry.get
RegistryGet(file_id) == {rec \in registry : rec.file_id = file_id}

\* registry.add: the record replaces one of the same file_id
RegistryAdd(rec) == {x \in registry : x.file_id # rec.file_id} \cup {rec}

\* the session of the client: session["authenticated"], session["user_id"]
NoSession == [authenticated |-> FALSE, user_id |-> 0]

\* check_session: both keys set and truthy
check_session == session.authenticated /\ session.user_id # 0

\* the ids the credential database may answer with
UserIds == {0, 1}

\* a /translate request: where it stands (pc), the payload (file_id, key),
\* the number of elements extracted (n, -1 before the extraction), how
\* translate_texts ended (tr), whether it called the provider (called), the
\* uuid of the output (output_id, 0 before it is drawn), the adapter call
\* that failed (fail) and the status code answered (status, 0 in flight)
IdleReq ==
    [pc |-> "idle", file_id |-> 0, key |-> <<>>, n |-> -1, tr |-> "none",
     called |-> FALSE, output_id |-> 0, fail |-> "none", status |-> 0]

\* abort(status), or an exception the route does not catch (500); the
\* payload of an answered request is dropped
Answered(req, status) ==
    [req EXCEPT !.pc = "done", !.status = status, !.key = <<>>]

\* what the provider answers to the requests of the routes
AppResponses ==
    { TransportFailure,
      HttpResponse(500, "content", <<>>),
      HttpResponse(200, "not_json", <<>>),
      HttpResponse(200, "content", <<"o", "k">>),
      HttpResponse(200, "content", Render(<< <<"a">> >>, "compact")),
      HttpResponse(200, "content", Render(<< <<"a">>, <<"B", ".">> >>, "spaced")) }

InitApp ==
    /\ pc = "serving"
    /\ registry = {}
    /\ disk = {}
    /\ session = NoSession
    /\ reqs = [r \in Reqs |-> IdleReq]
    /\ upload_status = 0
    /\ login_status = 0
    /\ next_id = 0
    /\ ScanIdle /\ ReconcileIdle /\ TranslateIdle /\ DocIdle

appFrame == <<pc, scanVars, reconcileVars, translateVars, docVars>>

\* POST /api/auth/login (lines 88-107): credentials missing (400), refused by
\* the credential database (401), or verified
Login ==
    /\ \/ login_status' = 400 /\ UNCHANGED session
       \/ login_status' = 401 /\ UNCHANGED session
       \/ /\ \E id \in UserIds :
                session' = [authenticated |-> TRUE, user_id |-> id]
          /\ login_status' = 200
    /\ UNCHANGED <<registry, disk, reqs, upload_status, next_id, appFrame>>

\* POST /api/auth/logout (lines 109-113)
Logout ==
    /\ session' = NoSession
    /\ UNCHANGED <<registry, disk, reqs, upload_status, login_status, next_id,
                   appFrame>>

\* POST /upload (lines 128-159)
Upload ==
    /\ next_id < MaxIds
    /\ Cardinality({rec \in registry : rec.kind = "source"}) < MaxUploads
    /\ IF ~check_session
       THEN /\ upload_status' = 401
            /\ UNCHANGED <<registry, disk, next_id>>
       ELSE \E doc \in UploadedDocs :
           IF doc.suffix \notin AllowedExtensions
           THEN /\ upload_status' = 400
                /\ UNCHANGED <<registry, disk, next_id>>
           ELSE /\ next_id' = uuid4(next_id)
                /\ disk' = disk \cup {File("uploads", uuid4(next_id), doc)}
                /\ registry' = RegistryAdd(
                       FileRecord(uuid4(next_id), "source", "uploads", doc.suffix))
                /\ upload_status' = 200
    /\ UNCHANGED <<session, reqs, login_status, appFrame>>

\* the file a record points to, as the adapter finds it
StoredFile(rec) == {f \in disk : f.folder = rec.folder /\ f.id = rec.file_id}

\* BeginRequest of a route without the require_auth decorator
BeginRequest_ungated(file_id, lang, key) ==
    LET req == [IdleReq EXCEPT !.file_id = file_id, !.key = key]
        found == RegistryGet(file_id)
    IN  IF file_id = 0 THEN Answered(IdleReq, 400)
        ELSE IF found = {} THEN Answered(IdleReq, 404)
        ELSE IF lang = <<>> THEN Answered(IdleReq, 400)
        ELSE IF \E rec \in found : rec.suffix \notin HandledSuffixes
        THEN Answered(IdleReq, 400)
        ELSE [req EXCEPT !.pc = "extract"]

\* lines 161-185 for one payload: the request as it stands before
\* handler.extract_text(), or as it was answered
BeginRequest(file_id, lang, key) ==
    LET req == [IdleReq EXCEPT !.file_id = file_id, !.key = key]
        found == RegistryGet(file_id)
    IN  IF ~check_session THEN Answered(IdleReq, 401)
        ELSE IF file_id = 0 THEN Answered(IdleReq, 400)
        ELSE IF found = {} THEN Answered(IdleReq, 404)
        ELSE IF lang = <<>> THEN Answered(IdleReq, 400)
        ELSE IF \E rec \in found : rec.suffix \notin HandledSuffixes
        THEN Answered(IdleReq, 400)
        ELSE [req EXCEPT !.pc = "extract"]

\* POST /translate, lines 161-185: the session check, the payload checks,
\* the lookup and the choice of the handler
TranslateBegin(r) ==
    /\ reqs[r].pc \in {"idle", "done"}
    /\ \E began \in {BeginRequest(file_id, lang, key) :
                        file_id \in 0..(next_id + 1),
                        lang \in {<<>>, <<"e", "s">>},
                        key \in {<<>>, <<"k">>}} :
        reqs' = [reqs EXCEPT ![r] = began]
    /\ UNCHANGED <<registry, disk, session, upload_status, login_status, next_id,
                   appFrame>>

\* AfterExtract with no test for an empty element list
AfterExtract_nocheck(req, doc) ==
    IF doc.corrupt
    THEN Answered([req EXCEPT !.fail = "extract_text"], 500)
    ELSE [req EXCEPT !.n = doc.n, !.pc = "translate"]

\* lines 186-189: what follows handler.extract_text() on the stored file: the
\* adapter raises on a file it cannot parse, and the route catches nothing;
\* an empty element list is answered 400
AfterExtract(req, doc) ==
    IF doc.corrupt
    THEN Answered([req EXCEPT !.fail = "extract_text"], 500)
    ELSE IF doc.n = 0
    THEN Answered([req EXCEPT !.n = 0], 400)
    ELSE [req EXCEPT !.n = doc.n, !.pc = "translate"]

\* lines 186-189: handler.extract_text() and the test for no elements
ExtractText(r) ==
    /\ reqs[r].pc = "extract"
    /\ \E rec \in RegistryGet(reqs[r].file_id) : \E f \in StoredFile(rec) :
        reqs' = [reqs EXCEPT ![r] = AfterExtract(@, f.doc)]
    /\ UNCHANGED <<registry, disk, session, upload_status, login_status, next_id,
                   appFrame>>

\* the texts of the elements of a document with n elements
ElementTexts(n) == SourceTexts(n, 0)

\* AfterTranslate with the TranslationError logged and not aborted on
AfterTranslate_noabort(req, out) ==
    IF out.kind = "return"
    THEN [req EXCEPT !.tr = "return", !.pc = "apply"]
    ELSE IF out.exc = "TranslationError"
    THEN [req EXCEPT !.tr = "TranslationError", !.pc = "apply"]
    ELSE Answered([req EXCEPT !.tr = out.exc], 500)

\* lines 203-206: what follows the call of translate_texts
AfterTranslate(req, out) ==
    IF out.kind = "return"
    THEN [req EXCEPT !.tr = "return", !.pc = "apply"]
    ELSE IF out.exc = "TranslationError"
    THEN Answered([req EXCEPT !.tr = "TranslationError"], 502)
    ELSE Answered([req EXCEPT !.tr = out.exc], 500)

\* lines 191-206: the translator is built and translate_texts called
TranslateTexts(r) ==
    /\ reqs[r].pc = "translate"
    /\ \E answered \in
            { AfterTranslate(
                  [reqs[r] EXCEPT !.called =
                      CallsProvider(ElementTexts(reqs[r].n), reqs[r].key)],
                  translate_texts(ElementTexts(reqs[r].n), reqs[r].key,
                                  <<"e", "s">>, resp)) : resp \in AppResponses } :
        reqs' = [reqs EXCEPT ![r] = answered]
    /\ UNCHANGED <<registry, disk, session, upload_status, login_status, next_id,
                   appFrame>>

\* lines 208-215: the mapping, the uuid of the output, apply_translations.
\* The adapter parses the stored file again and saves the output.  When it
\* raises (the parse or the save fails) the route catches nothing, and the
\* output path holds nothing or a broken file.
ApplyTranslations(r) ==
    /\ reqs[r].pc = "apply"
    /\ next_id < MaxIds
    /\ next_id' = uuid4(next_id)
    /\ \E rec \in RegistryGet(reqs[r].file_id) : \E f \in StoredFile(rec) :
        \/ /\ reqs' = [reqs EXCEPT ![r] =
                  [@ EXCEPT !.output_id = uuid4(next_id), !.pc = "register"]]
           /\ disk' = disk \cup {File("output", uuid4(next_id), f.doc)}
        \/ /\ reqs' = [reqs EXCEPT ![r] =
                  Answered([@ EXCEPT !.output_id = uuid4(next_id),
                                     !.fail = "apply_translations"], 500)]
           /\ \/ UNCHANGED disk
              \/ disk' = disk \cup
                     {File("output", uuid4(next_id), Doc(f.doc.suffix, TRUE, 0))}
    /\ UNCHANGED <<registry, session, upload_status, login_status, appFrame>>

\* lines 217-234: the output record is added and the response sent
RegisterOutput(r) ==
    /\ reqs[r].pc = "register"
    /\ \E rec \in RegistryGet(reqs[r].file_id) :
        registry' = RegistryAdd(
            FileRecord(reqs[r].output_id, "translated", "output", rec.suffix))
    /\ reqs' = [reqs EXCEPT ![r] = Answered(@, 200)]
    /\ UNCHANGED <<disk, session, upload_status, login_status, next_id, appFrame>>

NextApp ==
    \/ Login
    \/ Logout
    \/ Upload
    \/ \E r \in Reqs : TranslateBegin(r)
    \/ \E r \in Reqs : ExtractText(r)
    \/ \E r \in Reqs : TranslateTexts(r)
    \/ \E r \in Reqs : ApplyTranslations(r)
    \/ \E r \in Reqs : RegisterOutput(r)

SpecApp == InitApp /\ [][NextApp]_vars


-----------------------------------------------------------------------------
(* Claims about the /translate route, under SpecApp.                       *)

\* the output of request r: the file at its output path, its registry record
OutputFile(r) ==
    {f \in disk : f.folder = "output" /\ f.id = reqs[r].output_id}
OutputRecord(r) ==
    {rec \in registry : rec.kind = "translated" /\ rec.file_id = reqs[r].output_id}

\* C8: the output document is written and the output record registered only
\* after translate_texts has returned; a request whose translate_texts raised
\* TranslationError ends with status 502, with no output file written and no
\* output record registered.
C8_OutputOnlyAfterTranslation ==
    \A r \in Reqs :
        /\ (reqs[r].output_id # 0 \/ reqs[r].pc \in {"apply", "register"}
               \/ reqs[r].status = 200)
             => reqs[r].tr = "return"
        /\ reqs[r].tr = "TranslationError" =>
             /\ reqs[r].pc = "done"
             /\ reqs[r].status = 502
             /\ reqs[r].output_id = 0
             /\ OutputFile(r) = {}
             /\ OutputRecord(r) = {}
        /\ OutputRecord(r) # {} => OutputFile(r) # {}

\* C8 happens: the provider was called, translate_texts raised
\* TranslationError and the request was answered 502
C8_Witness ==
    \E r \in Reqs :
        /\ reqs[r].called
        /\ reqs[r].tr = "TranslationError"
        /\ reqs[r].status = 502

\* C9: a request whose document yields no text elements is answered 400, and
\* no remote translation call is made for it.
C9_EmptyDocumentRejectedBeforeRemoteCall ==
    \A r \in Reqs :
        /\ reqs[r].n = 0 =>
             /\ reqs[r].pc = "done"
             /\ reqs[r].status = 400
             /\ reqs[r].tr = "none"
             /\ ~reqs[r].called
        /\ reqs[r].called => reqs[r].n >= 1

\* C9 happens: a document without text elements was extracted and rejected
C9_Witness ==
    \E r \in Reqs :
        /\ reqs[r].n = 0
        /\ reqs[r].file_id # 0
        /\ reqs[r].status = 400

\* C10: when the adapter fails on the stored file, in extract_text or in
\* apply_translations, the request is rejected as an unsupported or corrupt
\* document (a 4xx answer), not answered with a server error, and no output
\* record is registered.
C10_AdapterFailureIsRejection ==
    \A r \in Reqs :
        reqs[r].fail # "none" =>
            /\ reqs[r].status \in 400..499
            /\ OutputRecord(r) = {}

-----------------------------------------------------------------------------
(* Claims about the provider's failures, under SpecTranslate.              *)

\* the call went to the provider and an HTTP response came back
LiveResponse ==
    /\ pc = "done"
    /\ texts # <<>>
    /\ api_key # <<>>
    /\ response.kind = "http"

\* C11: every provider response whose status code is outside 200..299 makes
\* translate_texts fail with a TranslationError carrying the status and the
\* body; for no such status is the body parsed or a list returned.
C11_NonSuccessStatusIsHardFailure ==
    (LiveResponse /\ response.status \notin 200..299)
        => outcome = Raised("TranslationError",
                            "OpenRouter API returned status: body", response.status)

\* C12: for every provider outcome (transport failure, any status, a body
\* that is not JSON, a JSON body lacking choices/message/content, a content
\* that is null, a content holding no array) translate_texts either returns
\* a list or raises TranslationError, and nothing else.
C12_FailsOnlyWithTranslationError ==
    pc = "done" =>
        \/ outcome.kind = "return"
        \/ outcome.kind = "raise" /\ outcome.exc = "TranslationError"

-----------------------------------------------------------------------------
(* document_handler.py: the three adapters.                                *)
(*                                                                         *)
(* A parsed document is its structure (slides and shapes, body paragraphs  *)
(* and tables, worksheets) and the content of its text locations.  A       *)
(* location is the object the library hands to the adapter (a paragraph, a *)
(* table cell, a worksheet cell); content[loc] is its value and its font.  *)

\* the paragraphs of a text frame / of a document body, the columns of a
\* table / of a worksheet
MaxParagraphs == 2
MaxColumns == 2

\* the value of a location: a string, a number, a boolean, nothing, or a
\* formula with the result the spreadsheet program cached for it (ct, cs)
StrValue(s) == [t |-> "str", s |-> s, ct |-> "none", cs |-> <<>>]
NumValue == [t |-> "num", s |-> <<>>, ct |-> "none", cs |-> <<>>]
BoolValue == [t |-> "bool", s |-> <<>>, ct |-> "none", cs |-> <<>>]
NoneValue == [t |-> "none", s |-> <<>>, ct |-> "none", cs |-> <<>>]
FormulaValue(ct, cs) == [t |-> "formula", s |-> <<"=", "A", "1">>, ct |-> ct, cs |-> cs]

\* the font a location has in the source file, no font_name argument, and
\* the font _apply_body_text_format sets (BODY_FONT_NAME, BODY_FONT_SIZE_PT)
SourceFont == "source"
NoFontName == ""
BodyFont == "Arial 24"

Cell(value, font) == [value |-> value, font |-> font]

\* TextElement
TextElement(element_id, text) == [element_id |-> element_id, text |-> text]

\* one iteration of an adapter's loops: the ID it computes and the location
\* the library handed it
Visit(element_id, loc) == [element_id |-> element_id, loc |-> loc]

\* lines 156-162: PowerPointHandler._paragraph_id and _cell_id
PptParagraphId(slide_index, shape_index, paragraph_index) ==
    <<"ppt_s", ToString(slide_index), "_sh", ToString(shape_index),
      "_p", ToString(paragraph_index)>>
PptCellId(slide_index, shape_index, row_index, col_index) ==
    <<"ppt_s", ToString(slide_index), "_sh", ToString(shape_index),
      "_c", ToString(row_index), "_", ToString(col_index)>>

\* lines 272-278: WordHandler._paragraph_id and _cell_id
WordParagraphId(paragraph_index) == <<"doc_p", ToString(paragraph_index)>>
WordCellId(table_index, row_index, col_index) ==
    <<"doc_t", ToString(table_index), "_r", ToString(row_index),
      "_c", ToString(col_index)>>

\* lines 326-328: ExcelHandler._cell_id
ExcelCellId(sheet_index, row_index, column_index) ==
    <<"xls_s", ToString(sheet_index), "_r", ToString(row_index),
      "_c", ToString(column_index)>>

\* lines 91-112, 115-137: the loops of _extract_from_shape and of
\* _apply_to_shape over one shape: the paragraphs of a text frame, the cells
\* of a table, nothing for any other shape
PptShapeVisits(s, sh, shape) ==
    (IF shape.type = "text"
     THEN [p \in 1..shape.paras |->
              Visit(PptParagraphId(s, sh, p - 1), <<"p", s, sh, p - 1>>)]
     ELSE <<>>)
    \o
    (IF shape.type = "table"
     THEN Flatten([r \in 1..shape.rows |-> [c \in 1..shape.cols |->
              Visit(PptCellId(s, sh, r - 1, c - 1), <<"c", s, sh, r - 1, c - 1>>)]])
     ELSE <<>>)

\* lines 67-69, 81-83: enumerate(presentation.slides), enumerate(slide.shapes)
PptVisits(doc) ==
    Flatten([s \in 1..Len(doc.slides) |->
        Flatten([sh \in 1..Len(doc.slides[s]) |->
            PptShapeVisits(s - 1, sh - 1, doc.slides[s][sh])])])

\* row.cells of python-docx (lines 187-188, 214-215): one _Cell for every
\* grid column of the row; a grid column covered by a horizontal span yields
\* the cell of the span's first column again, and a cell continuing a
\* vertical merge yields the cell of the row above
RECURSIVE RowCell(_, _, _, _)
RowCell(table, t, r, c) ==
    IF table[r][c] = "vmerge" /\ r > 1 THEN RowCell(table, t, r - 1, c)
    ELSE IF table[r][c] = "hspan" /\ c > 1 THEN RowCell(table, t, r, c - 1)
    ELSE <<"tc", t - 1, r - 1, c - 1>>

\* lines 182-194, 206-218: the loops of WordHandler over document.paragraphs
\* and over document.tables, rows and row.cells
WordVisits(doc) ==
    [p \in 1..doc.paras |-> Visit(WordParagraphId(p - 1), <<"p", p - 1>>)]
    \o
    Flatten([t \in 1..Len(doc.tables) |->
        Flatten([r \in 1..Len(doc.tables[t]) |->
            [c \in 1..Len(doc.tables[t][r]) |->
                Visit(WordCellId(t - 1, r - 1, c - 1),
                      RowCell(doc.tables[t], t, r, c))]])])

\* lines 291-293, 311-313: the loops of ExcelHandler over workbook.worksheets
\* and sheet.iter_rows(); cell.row and cell.column count from 1
ExcelVisits(doc) ==
    Flatten([s \in 1..Len(doc.sheets) |->
        Flatten([r \in 1..doc.sheets[s].rows |->
            [c \in 1..doc.sheets[s].cols |->
                Visit(ExcelCellId(s - 1, r, c), <<"x", s - 1, r, c>>)]])])

\* the loops of the adapter get_document_handler chose (lines 331-339)
Visits(doc) ==
    IF doc.kind = "pptx" THEN PptVisits(doc)
    ELSE IF doc.kind = "docx" THEN WordVisits(doc)
    ELSE ExcelVisits(doc)

\* line 288: load_workbook(data_only=True) gives, for a formula cell, the
\* result cached in the file (None when the file holds none)
DataOnlyValue(v) ==
    IF v.t # "formula" THEN v
    ELSE IF v.ct = "str" THEN StrValue(v.cs)
    ELSE IF v.ct = "num" THEN NumValue
    ELSE NoneValue

\* whether extract_text sees a str at the location, and the str it sees:
\* paragraph.text and cell.text are always str (lines 98, 107, 183, 189),
\* a worksheet cell is tested with isinstance(value, str) (line 295)
SeenValue(doc, loc) ==
    IF doc.kind = "xlsx" THEN DataOnlyValue(doc.content[loc].value)
    ELSE doc.content[loc].value

\* the test for an element: a str whose strip() is not empty
Emits(doc, v) ==
    /\ SeenValue(doc, v.loc).t = "str"
    /\ strip(SeenValue(doc, v.loc).s) # <<>>

\* extract_text (lines 63-71, 178-196, 287-301)
extract_text(doc) ==
    LET emitted == SelectSeq(Visits(doc), LAMBDA v : Emits(doc, v))
    IN  [i \in 1..Len(emitted) |->
            TextElement(emitted[i].element_id,
                        strip(SeenValue(doc, emitted[i].loc).s))]

\* the replacement of one location: _replace_ppt_paragraph and
\* _replace_ppt_cell set the body font (lines 139-170); _replace_paragraph
\* and _replace_cell keep the original font unless font_name is given (lines
\* 225-270); a worksheet cell gets the value, and the font only when
\* font_name is given (lines 316-318)
Replace(kind, cell, new_text, font) ==
    IF kind = "pptx" THEN Cell(StrValue(new_text), BodyFont)
    ELSE Cell(StrValue(new_text), IF font # NoFontName THEN font ELSE cell.font)

\* the loops of apply_translations: translations.get(element_id), and the
\* replacement when it is not None (lines 125-128, 134-137, 207-218,
\* 314-319)
RECURSIVE ApplyVisits(_, _, _, _, _)
ApplyVisits(kind, acc, visits, translations_, font) ==
    IF visits = <<>> THEN acc
    ELSE LET v == Head(visits)
         IN  IF v.element_id \in DOMAIN translations_
             THEN ApplyVisits(kind,
                      [content |-> [acc.content EXCEPT ![v.loc] =
                           Replace(kind, @, translations_[v.element_id], font)],
                       rewrites |-> Append(acc.rewrites, v)],
                      Tail(visits), translations_, font)
             ELSE ApplyVisits(kind, acc, Tail(visits), translations_, font)

\* apply_translations (lines 73-88, 198-223, 303-324): the file is parsed
\* again, the loops run, the document is saved at output_path
apply_translations(doc, translations_, font) ==
    ApplyVisits(doc.kind, [content |-> doc.content, rewrites |-> <<>>],
                Visits(doc), translations_, font)

-----------------------------------------------------------------------------
(* Specification of one adapter: extract_text, then apply_translations on  *)
(* the same file.                                                          *)

\* the texts of a paragraph or cell: one that strip() shortens, one that is
\* whitespace only
CellTexts == {<<"H", "i", " ">>, <<" ">>}

\* the values of a worksheet cell
ExcelValues ==
    { StrValue(<<"H", "i", " ">>), StrValue(<<" ">>), NumValue, BoolValue,
      NoneValue, FormulaValue("str", <<"H", "i">>), FormulaValue("num", <<>>) }

Shape(type, paras, rows, cols) ==
    [type |-> type, paras |-> paras, rows |-> rows, cols |-> cols]

PptDocument(slides, content) ==
    [kind |-> "pptx", slides |-> slides, content |-> content]
WordDocument(paras, tables, content) ==
    [kind |-> "docx", paras |-> paras, tables |-> tables, content |-> content]
ExcelDocument(sheets, content) ==
    [kind |-> "xlsx", sheets |-> sheets, content |-> content]

\* the locations the loops reach in a document of the given structure
Locations(doc) == {Visits(doc)[i].loc : i \in 1..Len(Visits(doc))}

\* a presentation: a text box and a picture on the first slide, a table on
\* the second
PptSlides ==
    << <<Shape("text", MaxParagraphs, 0, 0), Shape("other", 0, 0, 0)>>,
       <<Shape("table", 0, 1, MaxColumns)>> >>

\* a word document: one body paragraph and one table of two rows; no cell
\* merged, the first row's second column inside a horizontal span, or the
\* second row's first cell continuing a vertical merge
WordTables ==
    { << << [c \in 1..MaxColumns |-> "tc"],
            [c \in 1..MaxColumns |-> "tc"] >> >>,
      << << [c \in 1..MaxColumns |-> IF c = 2 THEN "hspan" ELSE "tc"],
            [c \in 1..MaxColumns |-> "tc"] >> >>,
      << << [c \in 1..MaxColumns |-> "tc"],
            [c \in 1..MaxColumns |-> IF c = 1 THEN "vmerge" ELSE "tc"] >> >> }

\* a workbook of two worksheets
ExcelSheets ==
    << [rows |-> 1, cols |-> MaxColumns], [rows |-> 1, cols |-> 1] >>

TextCells == {Cell(StrValue(t), SourceFont) : t \in CellTexts}

Documents ==
    {PptDocument(PptSlides, f) :
        f \in [Locations(PptDocument(PptSlides, <<>>)) -> TextCells]}
    \cup
    UNION {{WordDocument(1, tables, f) :
                f \in [Locations(WordDocument(1, tables, <<>>)) -> TextCells]} :
           tables \in WordTables}
    \cup
    {ExcelDocument(ExcelSheets, f) :
        f \in [Locations(ExcelDocument(ExcelSheets, <<>>)) ->
                   {Cell(v, SourceFont) : v \in ExcelValues}]}

\* the IDs the loops compute
VisitIds(doc) == {Visits(doc)[i].element_id : i \in 1..Len(Visits(doc))}

\* the translation handed back for the element with the given ID
Translated(element_id) == <<"T", ":">> \o element_id

FontNames == {NoFontName, "Noto Sans"}

InitDocument ==
    /\ pc = "extract_text"
    /\ document \in Documents
    /\ elements = <<>> /\ mapping = <<>> /\ font_name = NoFontName
    /\ saved = <<>> /\ rewrites = <<>>
    /\ ScanIdle /\ ReconcileIdle /\ TranslateIdle /\ AppIdle

docFrame == <<scanVars, reconcileVars, translateVars, appVars>>

\* handler.extract_text()
HandlerExtractText ==
    /\ pc = "extract_text"
    /\ elements' = extract_text(document)
    /\ pc' = "mapping"
    /\ UNCHANGED <<document, mapping, font_name, saved, rewrites, docFrame>>

\* the caller's mapping from element IDs to translations, and its font: any
\* set of the document's IDs (app.py line 208 builds the one that covers the
\* extracted elements)
BuildMapping ==
    /\ pc = "mapping"
    /\ \E keys \in SUBSET VisitIds(document), font \in FontNames :
        /\ mapping' = [k \in keys |-> Translated(k)]
        /\ font_name' = font
    /\ pc' = "apply_translations"
    /\ UNCHANGED <<document, elements, saved, rewrites, docFrame>>

\* handler.apply_translations(mapping, output_path, font_name)
HandlerApplyTranslations ==
    /\ pc = "apply_translations"
    /\ LET out == apply_translations(document, mapping, font_name)
       IN  /\ saved' = [document EXCEPT !.content = out.content]
           /\ rewrites' = out.rewrites
    /\ pc' = "saved"
    /\ UNCHANGED <<document, elements, mapping, font_name, docFrame>>

NextDocument == HandlerExtractText \/ BuildMapping \/ HandlerApplyTranslations

SpecDocument == InitDocument /\ [][NextDocument]_vars

-----------------------------------------------------------------------------
(* Claims about the adapters, under SpecDocument.                          *)

\* the IDs extract_text emitted, and the location an emitted ID was read from
EmittedIds == {elements[i].element_id : i \in 1..Len(elements)}
ExtractedFrom(element_id) ==
    {Visits(document)[i].loc :
        i \in {j \in 1..Len(Visits(document)) :
                  Visits(document)[j].element_id = element_id}}

\* the replacements apply_translations made at a location
RewritesAt(loc) == {i \in 1..Len(rewrites) : rewrites[i].loc = loc}

\* C13: on one document the IDs extract_text emits are pairwise distinct,
\* and apply_translations with a mapping covering every emitted ID rewrites
\* every extracted location exactly once, with the text mapped to that
\* location's own ID: no location is rewritten under two IDs.
C13_RoundTrip ==
    (pc = "saved" /\ EmittedIds \subseteq DOMAIN mapping) =>
        /\ \A i, j \in 1..Len(elements) :
               elements[i].element_id = elements[j].element_id => i = j
        /\ \A id \in EmittedIds : \A loc \in ExtractedFrom(id) :
               /\ Cardinality(RewritesAt(loc)) = 1
               /\ \A i \in RewritesAt(loc) : rewrites[i].element_id = id
               /\ saved.content[loc].value = StrValue(mapping[id])

\* the IDs under which the loops reach a location
IdsOf(loc) ==
    {Visits(document)[i].element_id :
        i \in {j \in 1..Len(Visits(document)) : Visits(document)[j].loc = loc}}

\* C14: apply_translations leaves each text location whose ID has no entry
\* in the mapping unchanged (text and font neither cleared nor replaced), for
\* every ID under which the adapter reaches the location; only locations
\* whose ID is a key of the mapping are rewritten.
C14_UnmappedUntouched ==
    pc = "saved" =>
        /\ \A i \in 1..Len(Visits(document)) :
               Visits(document)[i].element_id \notin DOMAIN mapping =>
                   saved.content[Visits(document)[i].loc]
                       = document.content[Visits(document)[i].loc]
        /\ \A i \in 1..Len(rewrites) : rewrites[i].element_id \in DOMAIN mapping

\* C15: ExcelHandler.extract_text emits no TextElement for a worksheet cell
\* holding a number, a boolean or a formula (whatever the formula's computed
\* result), so the /translate pipeline, whose mapping has the emitted IDs as
\* its keys, never overwrites such a cell.
C15_OnlyStringCellsEmitted ==
    (pc = "saved" /\ document.kind = "xlsx") =>
        \A loc \in Locations(document) :
            document.content[loc].value.t \in {"num", "bool", "formula"} =>
                /\ IdsOf(loc) \cap EmittedIds = {}
                /\ DOMAIN mapping = EmittedIds =>
                       saved.content[loc] = document.content[loc]

-----------------------------------------------------------------------------
(* Specification of concurrent /translate requests: the routes run in      *)
(* worker threads, so the steps of several requests interleave.  A client  *)
(* has logged in and uploaded one document.                                *)

Concurrent == 1..(MaxReqs + 1)

SourceDoc == Doc("docx", FALSE, 2)

InitConcurrent ==
    /\ pc = "serving"
    /\ session = [authenticated |-> TRUE, user_id |-> 1]
    /\ next_id = uuid4(0)
    /\ registry = {FileRecord(uuid4(0), "source", "uploads", SourceDoc.suffix)}
    /\ disk = {File("uploads", uuid4(0), SourceDoc)}
    /\ upload_status = 200
    /\ login_status = 200
    /\ reqs = [r \in Concurrent |-> IdleReq]
    /\ ScanIdle /\ ReconcileIdle /\ TranslateIdle /\ DocIdle

\* each of the requests arrives once
Arrive(r) == reqs[r].pc = "idle" /\ TranslateBegin(r)

NextConcurrent ==
    \/ \E r \in Concurrent : Arrive(r)
    \/ \E r \in Concurrent : ExtractText(r)
    \/ \E r \in Concurrent : TranslateTexts(r)
    \/ \E r \in Concurrent : ApplyTranslations(r)
    \/ \E r \in Concurrent : RegisterOutput(r)

SpecConcurrent == InitConcurrent /\ [][NextConcurrent]_vars

-----------------------------------------------------------------------------
(* Claims about concurrent requests, under SpecConcurrent.                 *)

\* the files at a path
FilesAt(folder, id) == {f \in disk : f.folder = folder /\ f.id = id}

\* the requests are independent in a state: outputs of different requests
\* have different ids, no output id is the id of the file the request reads
\* or of the uploaded file, a
\* request answered 200 has its own record and its own file, and the source
\* record and the source file are as they were uploaded
IndependentOutputs ==
    /\ \A r1, r2 \in DOMAIN reqs :
           (r1 # r2 /\ reqs[r1].output_id # 0 /\ reqs[r2].output_id # 0)
               => reqs[r1].output_id # reqs[r2].output_id
    /\ \A r \in DOMAIN reqs :
           reqs[r].output_id # 0 =>
               /\ reqs[r].output_id # reqs[r].file_id
               /\ reqs[r].output_id # uuid4(0)
    /\ \A r \in DOMAIN reqs :
           reqs[r].status = 200 =>
               /\ \E rec \in registry :
                      rec = FileRecord(reqs[r].output_id, "translated", "output",
                                       SourceDoc.suffix)
               /\ Cardinality(FilesAt("output", reqs[r].output_id)) = 1
    /\ FileRecord(uuid4(0), "source", "uploads", SourceDoc.suffix) \in registry
    /\ FilesAt("uploads", uuid4(0)) = {File("uploads", uuid4(0), SourceDoc)}

\* a step writes no path but the output path of the request that takes it,
\* adds no record but that request's, and removes or replaces nothing
WritesOwnOutputOnly ==
    /\ disk \subseteq disk'
    /\ registry \subseteq registry'
    /\ \A f \in disk' \ disk : \E r \in DOMAIN reqs :
           /\ reqs[r].pc = "apply"
           /\ f.folder = "output"
           /\ f.id = reqs'[r].output_id
           /\ FilesAt(f.folder, f.id) = {}
           /\ \A q \in DOMAIN reqs \ {r} : reqs'[q] = reqs[q]
    /\ \A rec \in registry' \ registry : \E r \in DOMAIN reqs :
           /\ reqs[r].pc = "register"
           /\ rec.file_id = reqs[r].output_id
           /\ rec.kind = "translated"

\* C16: for any interleaving of two /translate requests for the same source
\* file_id, each successful request registers its own output record with its
\* own fresh file_id and output path; neither writes to the other's output
\* path or to the source file's path, and the source record is unchanged.
C16_ConcurrentRequestsIndependent ==
    [] IndependentOutputs /\ [][WritesOwnOutputOnly]_vars

\* C16 happens: two requests for the same source file were in flight
\* together and both were answered 200, each with its own output
C16_Witness ==
    \E r1, r2 \in DOMAIN reqs :
        /\ r1 # r2
        /\ reqs[r1].file_id = uuid4(0) /\ reqs[r2].file_id = uuid4(0)
        /\ reqs[r1].status = 200 /\ reqs[r2].status = 200
        /\ reqs[r1].output_id # reqs[r2].output_id
        /\ reqs[r1].output_id > reqs[r2].output_id

-----------------------------------------------------------------------------
(* Claims about the merge heuristics, under SpecReconcile.                 *)

\* the call merged: more items than source strings, within the tolerance
Merging ==
    /\ pc = "done"
    /\ Len(original_texts) >= 1
    /\ Len(translations) > Len(original_texts)
    /\ Len(translations) - Len(original_texts) <= Tolerance(Len(original_texts))

\* the least member of a non-empty set of integers
Least(S) == CHOOSE x \in S : \A y \in S : x <= y

\* the three signals as the claim words them, at index i (0-based) of items
StatedSignal(items, i) ==
    LET item == items[i + 1]
        before == items[i]
    IN  \/ item # <<>> /\ item[1] \in ClosingPunctuation
        \/ ~EndsWithTerminal(before)
        \/ item # <<>> /\ IsLower(item[1])

StatedIndex(items) ==
    LET signalled == {i \in 1..(Len(items) - 1) : StatedSignal(items, i)}
    IN  IF signalled # {} THEN Least(signalled) - 1 ELSE Len(items) - 2

\* the signals the code tests: item i is empty once its leading whitespace
\* is removed; what remains of it starts with closing punctuation or with a
\* lowercase letter; the item before it is not empty and, without its
\* trailing whitespace, does not end in terminal punctuation
ContinuationSignal(items, i) ==
    LET rest == lstrip(items[i + 1])
        before == rstrip(items[i])
    IN  IF rest = <<>> THEN TRUE
        ELSE \/ rest[1] \in ClosingPunctuation
             \/ IsLower(rest[1])
             \/ /\ items[i] # <<>>
                /\ (before = <<>> \/ before[Len(before)] \notin TerminalPunctuation)

ContinuationIndex(items) ==
    LET signalled == {i \in 1..(Len(items) - 1) : ContinuationSignal(items, i)}
    IN  IF signalled # {} THEN Least(signalled) - 1 ELSE Len(items) - 2

HelloItems ==
    << <<"H", "e", "l", "l", "o">>, <<"w", "o", "r", "l", "d", ".">>,
       <<"G", "o", "o", "d", "b", "y", "e">> >>
HelloMerged ==
    << <<"H", "e", "l", "l", "o", " ", "w", "o", "r", "l", "d", ".">>,
       <<"G", "o", "o", "d", "b", "y", "e">> >>

\* C17 as stated: _find_merge_index returns i-1 for the first i at which
\* item i starts with closing punctuation, the previous item does not end in
\* terminal punctuation, or item i starts with a lowercase letter, and len-2
\* when no index shows one of these three signals.
C17_MergePoint_AsStated ==
    Merging => _find_merge_index(translations) = StatedIndex(translations)

\* C17: _find_merge_index returns i-1 for the first i at which item i is
\* empty after its leading whitespace is removed, or what remains starts
\* with closing punctuation, or the previous item is not empty and (without
\* trailing whitespace) does not end in terminal punctuation, or what
\* remains starts with a lowercase letter; len-2 when no index shows a
\* signal.  A call that merges once merges at that index, and
\* ["Hello", "world.", "Goodbye"] with expected count 2 becomes
\* ["Hello world.", "Goodbye"].
C17_MergePoint ==
    /\ Merging =>
        /\ _find_merge_index(translations) = ContinuationIndex(translations)
        /\ Len(translations) = Len(original_texts) + 1 =>
               adjusted = MergeAt(translations, ContinuationIndex(translations))
    /\ pc = "done" => _merge_extra_items(HelloItems, 2) = HelloMerged

\* C17 happens: three items for two source strings, the second item blank
\* after an item that ends a sentence; the blank item was merged into the
\* first
C17_Witness ==
    /\ Merging
    /\ Len(translations) = 3 /\ Len(original_texts) = 2
    /\ translations[2] = <<" ">>
    /\ EndsWithTerminal(translations[1])
    /\ _find_merge_index(translations) = 0
    /\ adjusted = <<translations[1], translations[3]>>

\* the call merged once: the pair it merged and the item that came of it
OneMerge == Merging /\ Len(translations) = Len(original_texts) + 1
MergedLeft == translations[_find_merge_index(translations) + 1]
MergedRight == translations[_find_merge_index(translations) + 2]
MergedItem == adjusted[_find_merge_index(translations) + 1]

\* C18 as stated: _concat_segments(left, right) is trim(left) followed by
\* trim(right), trim removing leading and trailing whitespace, joined by
\* exactly one space, except that no space is inserted when the trimmed
\* right fragment begins with closing punctuation.
C18_Concatenation_AsStated ==
    OneMerge =>
        MergedItem = strip(MergedLeft)
                     \o (IF strip(MergedRight) # <<>>
                            /\ strip(MergedRight)[1] \in ClosingPunctuation
                         THEN <<>> ELSE <<" ">>)
                     \o strip(MergedRight)

\* C18: _concat_segments(left, right) is left without its trailing
\* whitespace followed by right without its leading whitespace (the leading
\* whitespace of left and the trailing whitespace of right are kept); when
\* one of the two is then empty the result is the other alone, otherwise
\* they are joined by exactly one space, except that no space is inserted
\* when the right fragment then begins with closing punctuation.
C18_Concatenation ==
    OneMerge =>
        LET l == rstrip(MergedLeft)
            r == lstrip(MergedRight)
            joint == IF l = <<>> \/ r = <<>> THEN <<>>
                     ELSE IF r[1] \in ClosingPunctuation THEN <<>>
                     ELSE <<" ">>
        IN  /\ MergedItem = l \o joint \o r
            /\ Len(MergedItem) = Len(l) + Len(joint) + Len(r)
            /\ (l # <<>> /\ l = lstrip(l)) => MergedItem[1] = MergedLeft[1]

\* C18 happens: a fragment beginning with closing punctuation was appended
\* with no space to a fragment that kept its leading whitespace
C18_Witness ==
    /\ OneMerge
    /\ MergedLeft = <<" ", "A", " ">>
    /\ MergedRight = <<",", "a">>
    /\ MergedItem = <<" ", "A", ",", "a">>

\* the list the loop of _merge_extra_items holds when k items are left
MergedDownTo(k) == _merge_extra_items(translations, k)

\* C19: for every list of M items and every expected count E with
\* 1 <= E < M, the loop of _merge_extra_items ends after exactly M - E
\* merges with exactly E items, and in every iteration the index returned
\* by _find_merge_index is between 0 and len - 2, so that the two merged
\* items exist and are adjacent.
C19_MergingTerminatesAtExpected ==
    pc = "done" =>
        /\ \A E \in 1..(Len(translations) - 1) :
              Bind(MergedDownTo(E + 1), LAMBDA items :
              Bind(_find_merge_index(items), LAMBDA idx :
              Bind(MergedDownTo(E), LAMBDA merged :
                  /\ Len(items) = E + 1
                  /\ 0 <= idx /\ idx <= Len(items) - 2
                  /\ merged = MergeAt(items, idx)
                  /\ Len(merged) = E)))
        /\ Merging => Len(adjusted) = Len(original_texts)

\* C19 happens: a list of five items was merged three times down to two
C19_Witness ==
    /\ pc = "done"
    /\ Len(translations) = Len(original_texts) + 3
    /\ Len(original_texts) = 2
    /\ Len(adjusted) = 2
    /\ _find_merge_index(translations) = 3


-----------------------------------------------------------------------------
(* Claims about the session gate, under SpecApp.                           *)

\* the most recent successful login has not been followed by a logout
LoggedIn == session.authenticated

\* a step in which /upload stores a file or adds a record
UploadStores ==
    \/ \E f \in disk' \ disk : f.folder = "uploads"
    \/ \E rec \in registry' \ registry : rec.kind = "source"

\* a step in which a /translate request arrives in slot r and is answered
\* or taken up
Arrives(r) == reqs[r].pc \in {"idle", "done"} /\ reqs'[r] # reqs[r]

\* what a step does with the session gate closed: an arriving /upload or
\* /translate request is answered 401 with nothing stored, nothing recorded
\* and no call to the provider
GateClosed ==
    /\ ~UploadStores
    /\ upload_status' # upload_status => upload_status' = 401
    /\ \A r \in Reqs :
          Arrives(r) =>
              /\ reqs'[r].pc = "done" /\ reqs'[r].status = 401
              /\ ~reqs'[r].called /\ reqs'[r].output_id = 0
              /\ disk' = disk /\ registry' = registry

\* the steps that change the session: a login answered 200 logs in, a
\* logout logs out, and a login answered 400 or 401 leaves the session as
\* it was
SessionSteps ==
    /\ (~LoggedIn /\ LoggedIn') => login_status' = 200
    /\ (LoggedIn /\ ~LoggedIn') =>
          session' = NoSession /\ login_status' = login_status
    /\ (login_status' # login_status /\ login_status' \in {400, 401}) =>
          session' = session

\* C20: an /upload or /translate request is processed (file stored, document
\* parsed, provider called) only if the most recent successful login on the
\* session has not been followed by a logout; otherwise it is answered 401,
\* no file is stored, no registry record is added and no call to the
\* provider is made.  A failed login does not change the session.
C20_SessionGate ==
    [][ /\ UploadStores => LoggedIn
        /\ \A r \in Reqs : (Arrives(r) /\ reqs'[r].pc = "extract") => LoggedIn
        /\ ~LoggedIn => GateClosed
        /\ SessionSteps ]_vars

\* C20 happens: after a login, an upload and a translation, the client
\* logged out and its next /translate request was answered 401; the last
\* login attempt, answered 401, left the session alone
C20_Witness ==
    /\ session = NoSession
    /\ login_status = 401
    /\ \E rec \in registry : rec.kind = "translated"
    /\ \E r \in Reqs : reqs[r].pc = "done" /\ reqs[r].status = 401

=============================================================================
